---- MODULE Spec2Model ----
(***************************************************************************)
(* Model of the AI TTS microservice (src/main.py): the single-slot model   *)
(* cache of TTSService (current_model / current_model_name / model_lock),  *)
(* the memory admission check and the request pipeline of                  *)
(* POST /generate-speech, POST /cleanup and the shutdown cleanup.          *)
(*                                                                         *)
(* Scheduling.  Every endpoint is an `async def` served by one asyncio     *)
(* event loop (uvicorn, workers=1).  A handler keeps the loop until it     *)
(* awaits; the only await in the file is `await asyncio.sleep(1)` of the   *)
(* admission check.  TTSService.generate_speech and get_model are plain    *)
(* synchronous calls made from the handler, so they run on the loop        *)
(* thread.  The background task added after a successful request is a      *)
(* plain function: it runs on a worker thread, concurrently with the loop. *)
(* `running` is the task that owns the loop thread (NoTask = loop idle).   *)
(***************************************************************************)
EXTENDS Integers, Sequences, FiniteSets, TLC

\* number of POST /generate-speech requests that arrive during a run
NumRequests == 2

Tasks == 1..NumRequests
NoTask == 0

\* Python None for current_model / the local `model`; handles are 1, 2, ...
NoModel == 0
\* Python None for current_model_name
NoName == "None"

\* TTSService.available_voices: voice id -> model key
available_voices ==
  [lightweight |-> "tts_models/en/ljspeech/tacotron2-DDC_ph",
   fast        |-> "tts_models/en/ljspeech/speedy-speech"]

\* request.voice values tried: the two known ids, an unknown id, and the
\* empty / missing id (falsy in Python)
Voices == {"lightweight", "fast", "robot", ""}

\* request.text values tried, as sequences of characters
Texts == {<< >>, <<" ">>, <<" ", "a">>}

\* the threshold of the admission check, in MB (both comparisons use it)
MEMORY_THRESHOLD_MB == 480

\* values get_memory_usage() returns in the admission check: below, at and
\* above the threshold
MemReadings ==
  {MEMORY_THRESHOLD_MB - 1, MEMORY_THRESHOLD_MB, MEMORY_THRESHOLD_MB + 1}

\* memory_before / memory_after_gc before they are assigned
NoReading == -1

\* max_length of TTSService.generate_speech
max_length == 500

\* speeds are in tenths: the bounds 0.5 and 2.0 of the clamp, the default 1.0
SPEED_MIN == 5
SPEED_MAX == 20
DEFAULT_SPEED == 10

\* Python None for request.speed and for `speed` before it is assigned
NoSpeed == -1000

\* request.speed values tried: missing, negative, zero, below, at, inside
\* and above the bounds
Speeds == {NoSpeed, -10, 0, 3, SPEED_MIN, DEFAULT_SPEED, SPEED_MAX, 25}

\* request[t] while no request is being handled
NoRequest == [text |-> << >>, voice |-> "", speed |-> NoSpeed]

VARIABLES
  service_ready,        \* tts_service is not None
  serving,              \* the server accepts requests (FALSE after shutdown)
  current_model,        \* TTSService.current_model: a handle or NoModel
  current_model_name,   \* TTSService.current_model_name: a key or NoName
  model_lock,           \* TTSService.model_lock: the holder or NoTask
  handles,              \* handles[h]: [key, released] of every handle built
  running,              \* the task that owns the event loop thread
  pc,                   \* pc[t]: where request t is
  request,              \* request[t]: the TTSRequest body (text, voice, speed)
  text,                 \* parameter `text` of TTSService.generate_speech
  voice,                \* parameter `voice` of TTSService.generate_speech
  speed,                \* parameter `speed` of TTSService.generate_speech
  memory_before,        \* local of the endpoint
  memory_after_gc,      \* local of the endpoint
  model_name,           \* argument of get_model
  model,                \* local `model` of TTSService.generate_speech
  tmp_file,             \* the request's temporary file exists
  outcome,              \* what tts_to_file did, pending the finally block
  result,               \* the response of request t
  log                   \* log[t]: the external effects of request t, in order

vars == <<service_ready, serving, current_model, current_model_name,
          model_lock, handles, running, pc, request, text, voice, speed,
          memory_before,
          memory_after_gc, model_name, model, tmp_file, outcome, result, log>>

cacheVars == <<current_model, current_model_name, model_lock, handles>>
localVars == <<text, voice, speed, memory_before, memory_after_gc, model_name, model,
               tmp_file, outcome>>

----------------------------------------------------------------------------
\* Pure helpers

IsSpace(c) == c = " "

RECURSIVE lstrip(_)
lstrip(s) == IF Len(s) > 0 /\ IsSpace(Head(s)) THEN lstrip(Tail(s)) ELSE s

RECURSIVE rstrip(_)
rstrip(s) ==
  IF Len(s) > 0 /\ IsSpace(s[Len(s)]) THEN rstrip(SubSeq(s, 1, Len(s) - 1))
  ELSE s

\* str.strip()
strip(s) == rstrip(lstrip(s))

\* `not text or not text.strip()`
IsBlank(s) == Len(s) = 0 \/ Len(strip(s)) = 0

\* Truncate cutting one character short
Truncate_OneShort(s) ==
  IF Len(s) > max_length THEN SubSeq(s, 1, max_length - 1) ELSE s

\* text[:max_length] when len(text) > max_length
Truncate(s) == IF Len(s) > max_length THEN SubSeq(s, 1, max_length) ELSE s

\* `request.voice or "lightweight"`
VoiceOrDefault(v) == IF v = "" THEN "lightweight" ELSE v

\* ResolveVoice falling back to the other voice
ResolveVoice_FallbackFast(v) ==
  IF v \in DOMAIN available_voices THEN v ELSE "fast"

\* `if voice not in self.available_voices: voice = "lightweight"`
ResolveVoice(v) == IF v \in DOMAIN available_voices THEN v ELSE "lightweight"

\* AboveThreshold with >= for >
AboveThreshold_AtOrAbove(m) == m >= MEMORY_THRESHOLD_MB

\* `request.speed or 1.0`: None and 0.0 are falsy
SpeedOrDefault(sp) == IF sp = NoSpeed \/ sp = 0 THEN DEFAULT_SPEED ELSE sp

\* max(0.5, min(2.0, float(speed)))
ClampSpeed(sp) ==
  IF sp > SPEED_MAX THEN SPEED_MAX ELSE IF sp < SPEED_MIN THEN SPEED_MIN ELSE sp

\* the two comparisons of the admission check
AboveThreshold(m) == m > MEMORY_THRESHOLD_MB

\* the capacity of the cache: the one slot current_model
Capacity == 1

\* `del self.current_model`: the cache gives up handle h
Release(hs, h) == [hs EXCEPT ![h].released = @ + 1]

\* handles the cache has built and not released
Live == {h \in DOMAIN handles : handles[h].released = 0}

\* the tasks whose TTS(...) call is in progress
Constructing == {t \in Tasks : pc[t] = "gm_construct"}

\* the places of get_model inside `with self.model_lock`
GmPcs == {"gm_check", "gm_evict", "gm_load", "gm_construct", "gm_setname",
          "gm_postload", "gm_except"}

Has(L, e) == \E i \in 1..Len(L) : L[i] = e
Count(L, e) == Cardinality({i \in 1..Len(L) : L[i] = e})

Emit(t, evs) == log' = [log EXCEPT ![t] = @ \o evs]

StatusOf(r) ==
  CASE r = "Audio" -> 200
    [] r = "InvalidInput" -> 400
    [] r = "ServiceNotReady" -> 503
    [] r = "Overloaded" -> 503
    [] r = "ModelLoadFailed" -> 500
    [] r = "GenerationFailed" -> 500
    [] OTHER -> 0

----------------------------------------------------------------------------
Init ==
  /\ service_ready \in BOOLEAN
  /\ serving = TRUE
  /\ current_model = NoModel
  /\ current_model_name = NoName
  /\ model_lock = NoTask
  /\ handles = << >>
  /\ running = NoTask
  /\ pc = [t \in Tasks |-> "idle"]
  /\ request = [t \in Tasks |-> NoRequest]
  /\ text = [t \in Tasks |-> << >>]
  /\ voice = [t \in Tasks |-> ""]
  /\ speed = [t \in Tasks |-> NoSpeed]
  /\ memory_before = [t \in Tasks |-> NoReading]
  /\ memory_after_gc = [t \in Tasks |-> NoReading]
  /\ model_name = [t \in Tasks |-> NoName]
  /\ model = [t \in Tasks |-> NoModel]
  /\ tmp_file = [t \in Tasks |-> FALSE]
  /\ outcome = [t \in Tasks |-> "none"]
  /\ result = [t \in Tasks |-> "none"]
  /\ log = [t \in Tasks |-> << >>]

\* AwaitPoints, had the synthesis call been awaited off the loop thread
AwaitPoints_SynthAwaited == {"sleep", "synth"}

\* the places where a handler awaits and gives the loop to other tasks:
\* `await asyncio.sleep(1)` is the only one
AwaitPoints == {"sleep"}

\* task t may take its next step: it owns the loop thread, or the loop is
\* idle and t is suspended at an await
Runs(t) == running = t \/ (running = NoTask /\ pc[t] \in AwaitPoints)

\* request t moves to p, keeping the loop unless p is an await
Goto(t, p) ==
  /\ pc' = [pc EXCEPT ![t] = p]
  /\ running' = IF p \in AwaitPoints THEN NoTask ELSE t

\* the handler of request t produces response r (an HTTPException or the
\* StreamingResponse); it still owns the loop until it has returned
Respond(t, r) ==
  /\ result' = [result EXCEPT ![t] = r]
  /\ Goto(t, "responded")

\* POST /generate-speech arrives with a body drawn from the given sets: the
\* handler starts on the idle loop and checks `if not tts_service`
Arrive(t, texts, voices, speeds) ==
  /\ pc[t] = "idle"
  /\ serving
  /\ running = NoTask
  /\ \E txt \in texts, v \in voices, sp \in speeds :
       request' = [request EXCEPT ![t] = [text |-> txt, voice |-> v, speed |-> sp]]
  /\ IF service_ready
       THEN Goto(t, "admit") /\ UNCHANGED result
       ELSE Respond(t, "ServiceNotReady")
  /\ UNCHANGED <<service_ready, serving, cacheVars, localVars, log>>

\* a request of the concurrent runs: any text and voice of the small sets,
\* the speed left at its default
Start(t) == Arrive(t, Texts, Voices, {DEFAULT_SPEED})

\* Admit failing fast: above the threshold it answers 503 at once
Admit_FailFast(t) ==
  /\ pc[t] = "admit"
  /\ Runs(t)
  /\ Emit(t, <<"read">>)
  /\ \E m \in MemReadings :
       /\ memory_before' = [memory_before EXCEPT ![t] = m]
       /\ IF AboveThreshold(m)
            THEN Respond(t, "Overloaded")
            ELSE Goto(t, "validate") /\ UNCHANGED result
  /\ UNCHANGED <<service_ready, serving, cacheVars, request, text, voice, speed,
                 memory_after_gc, model_name, model, tmp_file, outcome>>

\* memory_before = get_memory_usage(); above the threshold: gc.collect() and
\* await asyncio.sleep(1)
Admit(t) ==
  /\ pc[t] = "admit"
  /\ Runs(t)
  /\ \E m \in MemReadings :
       /\ memory_before' = [memory_before EXCEPT ![t] = m]
       /\ IF AboveThreshold(m)
            THEN Emit(t, <<"read", "gc">>) /\ Goto(t, "sleep")
            ELSE Emit(t, <<"read">>) /\ Goto(t, "validate")
  /\ UNCHANGED <<service_ready, serving, cacheVars, request, text, voice, speed,
                 memory_after_gc, model_name, model, tmp_file, outcome,
                 result>>

\* Wake dropping the resident model when it rejects
Wake_EvictOnReject(t) ==
  /\ pc[t] = "sleep"
  /\ Runs(t)
  /\ Emit(t, <<"sleep", "read">>)
  /\ \E m \in MemReadings :
       /\ memory_after_gc' = [memory_after_gc EXCEPT ![t] = m]
       /\ IF AboveThreshold(m)
            THEN /\ Respond(t, "Overloaded")
                 /\ IF current_model # NoModel
                      THEN /\ handles' = Release(handles, current_model)
                           /\ current_model' = NoModel
                           /\ current_model_name' = NoName
                      ELSE UNCHANGED <<handles, current_model,
                                       current_model_name>>
            ELSE /\ Goto(t, "validate")
                 /\ UNCHANGED <<result, handles, current_model,
                                current_model_name>>
  /\ UNCHANGED <<service_ready, serving, model_lock, request, text, voice, speed,
                 memory_before, model_name, model, tmp_file, outcome>>

\* the sleep is over: memory_after_gc = get_memory_usage(); still above the
\* threshold: 503
Wake(t) ==
  /\ pc[t] = "sleep"
  /\ Runs(t)
  /\ Emit(t, <<"sleep", "read">>)
  /\ \E m \in MemReadings :
       /\ memory_after_gc' = [memory_after_gc EXCEPT ![t] = m]
       /\ IF AboveThreshold(m)
            THEN Respond(t, "Overloaded")
            ELSE Goto(t, "validate") /\ UNCHANGED result
  /\ UNCHANGED <<service_ready, serving, cacheVars, request, text, voice, speed,
                 memory_before, model_name, model, tmp_file, outcome>>

\* the endpoint's validation, then the call of tts_service.generate_speech
\* with text=request.text.strip(), voice=request.voice or "lightweight"
Validate(t) ==
  /\ pc[t] = "validate"
  /\ Runs(t)
  /\ IF IsBlank(request[t].text)
       THEN /\ Respond(t, "InvalidInput")
            /\ UNCHANGED <<text, voice, speed>>
       ELSE /\ text' = [text EXCEPT ![t] = strip(request[t].text)]
            /\ voice' = [voice EXCEPT ![t] = VoiceOrDefault(request[t].voice)]
            /\ speed' = [speed EXCEPT ![t] = SpeedOrDefault(request[t].speed)]
            /\ Goto(t, "svc_validate")
            /\ UNCHANGED result
  /\ UNCHANGED <<service_ready, serving, cacheVars, request, memory_before,
                 memory_after_gc, model_name, model, tmp_file, outcome, log>>

\* TTSService.generate_speech up to the call of get_model: validation,
\* truncation, strip, voice fallback, the voice's model key
SvcValidate(t) ==
  /\ pc[t] = "svc_validate"
  /\ Runs(t)
  /\ IF IsBlank(text[t])
       THEN /\ Respond(t, "InvalidInput")
            /\ UNCHANGED <<text, voice, speed, model_name>>
       ELSE /\ text' = [text EXCEPT ![t] = strip(Truncate(text[t]))]
            /\ voice' = [voice EXCEPT ![t] = ResolveVoice(voice[t])]
            /\ speed' = [speed EXCEPT ![t] = ClampSpeed(speed[t])]
            /\ model_name' =
                 [model_name EXCEPT ![t] = available_voices[ResolveVoice(voice[t])]]
            /\ Goto(t, "gm_lock")
            /\ UNCHANGED result
  /\ UNCHANGED <<service_ready, serving, cacheVars, request, memory_before,
                 memory_after_gc, model, tmp_file, outcome, log>>

----------------------------------------------------------------------------
\* TTSService.get_model(model_name), called by request t

\* GmLock without the lock: get_model runs unlocked
GmLock_Unlocked(t) ==
  /\ pc[t] = "gm_lock"
  /\ Runs(t)
  /\ Emit(t, <<"lock">>)
  /\ Goto(t, "gm_check")
  /\ UNCHANGED <<service_ready, serving, cacheVars, request, localVars,
                 result>>

\* `with self.model_lock:` is entered
GmLock(t) ==
  /\ pc[t] = "gm_lock"
  /\ Runs(t)
  /\ model_lock = NoTask
  /\ model_lock' = t
  /\ Emit(t, <<"lock">>)
  /\ Goto(t, "gm_check")
  /\ UNCHANGED <<service_ready, serving, current_model, current_model_name,
                 handles, request, localVars, result>>

\* IsHit that never hits: every call reloads
IsHit_NeverHit(t) == FALSE

\* `if self.current_model and self.current_model_name == model_name`
IsHit(t) == current_model # NoModel /\ current_model_name = model_name[t]

\* the hit test: a hit returns current_model (leaving the with block);
\* a miss goes on to the eviction when a model is resident
GmCheck(t) ==
  /\ pc[t] = "gm_check"
  /\ Runs(t)
  /\ IF IsHit(t)
       THEN /\ model' = [model EXCEPT ![t] = current_model]
            /\ model_lock' = NoTask
            /\ Emit(t, <<"hit", "unlock">>)
            /\ Goto(t, "mktemp")
       ELSE /\ Goto(t, IF current_model # NoModel THEN "gm_evict" ELSE "gm_load")
            /\ UNCHANGED <<model, model_lock, log>>
  /\ UNCHANGED <<service_ready, serving, current_model, current_model_name,
                 handles, request, text, voice, speed, memory_before, memory_after_gc,
                 model_name, tmp_file, outcome, result>>

\* GmEvict that keeps the old model until the new one replaces it
GmEvict_NoRelease(t) ==
  /\ pc[t] = "gm_evict"
  /\ Runs(t)
  /\ Goto(t, "gm_load")
  /\ UNCHANGED <<service_ready, serving, cacheVars, request, localVars,
                 result, log>>

\* GmEvict without gc.collect()
GmEvict_NoHint(t) ==
  /\ pc[t] = "gm_evict"
  /\ Runs(t)
  /\ handles' = Release(handles, current_model)
  /\ current_model' = NoModel
  /\ current_model_name' = NoName
  /\ Emit(t, <<"release">>)
  /\ Goto(t, "gm_load")
  /\ UNCHANGED <<service_ready, serving, model_lock, request, localVars,
                 result>>

\* GmEvict that leaves the evicted model's name in the slot
GmEvict_KeepsName(t) ==
  /\ pc[t] = "gm_evict"
  /\ Runs(t)
  /\ handles' = Release(handles, current_model)
  /\ current_model' = NoModel
  /\ UNCHANGED current_model_name
  /\ Emit(t, <<"release", "gc">>)
  /\ Goto(t, "gm_load")
  /\ UNCHANGED <<service_ready, serving, model_lock, request, localVars,
                 result>>

\* "Clear any existing model first": del, None, None, gc.collect()
GmEvict(t) ==
  /\ pc[t] = "gm_evict"
  /\ Runs(t)
  /\ handles' = Release(handles, current_model)
  /\ current_model' = NoModel
  /\ current_model_name' = NoName
  /\ Emit(t, <<"release", "gc">>)
  /\ Goto(t, "gm_load")
  /\ UNCHANGED <<service_ready, serving, model_lock, request, localVars,
                 result>>

\* the log line, the import and torch.set_num_threads: TTS(...) is entered
GmLoad(t) ==
  /\ pc[t] = "gm_load"
  /\ Runs(t)
  /\ Emit(t, <<"construct">>)
  /\ Goto(t, "gm_construct")
  /\ UNCHANGED <<service_ready, serving, cacheVars, request, localVars,
                 result>>

\* `self.current_model = TTS(model_name, ...).to(device)` returns a new
\* handle or raises
GmConstruct(t) ==
  /\ pc[t] = "gm_construct"
  /\ Runs(t)
  /\ \E ok \in BOOLEAN :
       IF ok
         THEN /\ handles' =
                   Append(IF current_model # NoModel
                            THEN Release(handles, current_model) ELSE handles,
                          [key |-> model_name[t], released |-> 0])
              /\ current_model' = Len(handles) + 1
              /\ Goto(t, "gm_setname")
         ELSE /\ Goto(t, "gm_except")
              /\ UNCHANGED <<handles, current_model>>
  /\ UNCHANGED <<service_ready, serving, current_model_name, model_lock,
                 request, localVars, result, log>>

\* `self.current_model_name = model_name`
GmSetName(t) ==
  /\ pc[t] = "gm_setname"
  /\ Runs(t)
  /\ current_model_name' = model_name[t]
  /\ Goto(t, "gm_postload")
  /\ UNCHANGED <<service_ready, serving, current_model, model_lock, handles,
                 request, localVars, result, log>>

\* the memory log lines after the load (they can raise), then
\* `return self.current_model`
GmPostLoad(t) ==
  /\ pc[t] = "gm_postload"
  /\ Runs(t)
  /\ \E ok \in BOOLEAN :
       IF ok
         THEN /\ model' = [model EXCEPT ![t] = current_model]
              /\ model_lock' = NoTask
              /\ Emit(t, <<"unlock">>)
              /\ Goto(t, "mktemp")
         ELSE /\ Goto(t, "gm_except")
              /\ UNCHANGED <<model, model_lock, log>>
  /\ UNCHANGED <<service_ready, serving, current_model, current_model_name,
                 handles, request, text, voice, speed, memory_before, memory_after_gc,
                 model_name, tmp_file, outcome, result>>

\* GmExcept without the clean-up of the failed load
GmExcept_NoCleanup(t) ==
  /\ pc[t] = "gm_except"
  /\ Runs(t)
  /\ Emit(t, <<"unlock">>)
  /\ model_lock' = NoTask
  /\ Respond(t, "ModelLoadFailed")
  /\ UNCHANGED <<service_ready, serving, current_model, current_model_name,
                 handles, request, localVars>>

\* GmExcept that leaves get_model without giving model_lock back
GmExcept_KeepsLock(t) ==
  /\ pc[t] = "gm_except"
  /\ Runs(t)
  /\ IF current_model # NoModel
       THEN /\ handles' = Release(handles, current_model)
            /\ current_model' = NoModel
            /\ current_model_name' = NoName
            /\ Emit(t, <<"release", "gc">>)
       ELSE UNCHANGED <<handles, current_model, current_model_name, log>>
  /\ UNCHANGED model_lock
  /\ Respond(t, "ModelLoadFailed")
  /\ UNCHANGED <<service_ready, serving, request, localVars>>

\* `except Exception`: clean up on failure, raise HTTPException(500); both
\* callers re-raise it
GmExcept(t) ==
  /\ pc[t] = "gm_except"
  /\ Runs(t)
  /\ IF current_model # NoModel
       THEN /\ handles' = Release(handles, current_model)
            /\ current_model' = NoModel
            /\ current_model_name' = NoName
            /\ Emit(t, <<"release", "gc", "unlock">>)
       ELSE /\ Emit(t, <<"unlock">>)
            /\ UNCHANGED <<handles, current_model, current_model_name>>
  /\ model_lock' = NoTask
  /\ Respond(t, "ModelLoadFailed")
  /\ UNCHANGED <<service_ready, serving, request, localVars>>

----------------------------------------------------------------------------
\* TTSService.generate_speech after get_model

\* `with tempfile.NamedTemporaryFile(suffix=".wav", delete=False)`
MkTemp(t) ==
  /\ pc[t] = "mktemp"
  /\ Runs(t)
  /\ tmp_file' = [tmp_file EXCEPT ![t] = TRUE]
  /\ Goto(t, "synth")
  /\ UNCHANGED <<service_ready, serving, cacheVars, request, text, voice, speed,
                 memory_before, memory_after_gc, model_name, model, outcome,
                 result, log>>

\* what model.tts_to_file and the reading of the file can come to: audio
\* bytes, an empty file, no file, an exception
SynthOutcomes == {"ok", "empty", "missing", "raise"}

\* model.tts_to_file(text=text, file_path=tmp_file.name), the existence
\* check and the read; gc.collect() before `return audio_data`
Synth(t) ==
  /\ pc[t] = "synth"
  /\ Runs(t)
  /\ \E o \in SynthOutcomes :
       /\ outcome' = [outcome EXCEPT ![t] = o]
       /\ tmp_file' = [tmp_file EXCEPT ![t] = (o # "missing")]
       /\ Emit(t, IF o = "ok" THEN <<"synth", "gc">> ELSE <<"synth">>)
  /\ Goto(t, "finally")
  /\ UNCHANGED <<service_ready, serving, cacheVars, request, text, voice, speed,
                 memory_before, memory_after_gc, model_name, model, result>>

\* the finally block (os.unlink, a failure of which is only logged), then
\* either the endpoint's success path (add the background task, return the
\* StreamingResponse) or `except Exception`: gc.collect() and 500
Finally(t) ==
  /\ pc[t] = "finally"
  /\ Runs(t)
  /\ \E unlinked \in BOOLEAN :
       tmp_file' = [tmp_file EXCEPT ![t] = @ /\ ~unlinked]
  /\ IF outcome[t] = "ok"
       THEN /\ Respond(t, "Audio")
            /\ UNCHANGED log
       ELSE /\ Emit(t, <<"gc">>)
            /\ Respond(t, "GenerationFailed")
  /\ UNCHANGED <<service_ready, serving, cacheVars, request, text, voice, speed,
                 memory_before, memory_after_gc, model_name, model, outcome>>

\* the handler returns: its frame (the request body and the locals) is gone,
\* the loop is free, and the background task of a successful request is
\* handed to a worker thread
Return(t) ==
  /\ pc[t] = "responded"
  /\ Runs(t)
  /\ pc' = [pc EXCEPT ![t] = IF result[t] = "Audio" THEN "background" ELSE "done"]
  /\ running' = NoTask
  /\ request' = [request EXCEPT ![t] = NoRequest]
  /\ text' = [text EXCEPT ![t] = << >>]
  /\ voice' = [voice EXCEPT ![t] = ""]
  /\ speed' = [speed EXCEPT ![t] = NoSpeed]
  /\ memory_before' = [memory_before EXCEPT ![t] = NoReading]
  /\ memory_after_gc' = [memory_after_gc EXCEPT ![t] = NoReading]
  /\ model_name' = [model_name EXCEPT ![t] = NoName]
  /\ model' = [model EXCEPT ![t] = NoModel]
  /\ outcome' = [outcome EXCEPT ![t] = "none"]
  /\ log' = [log EXCEPT ![t] = << >>]
  /\ UNCHANGED <<service_ready, serving, cacheVars, tmp_file, result>>

\* the background task of a successful request, on a worker thread:
\* gc.collect() and a log line
Background(t) ==
  /\ pc[t] = "background"
  /\ Emit(t, <<"gc">>)
  /\ pc' = [pc EXCEPT ![t] = "done"]
  /\ UNCHANGED <<service_ready, serving, cacheVars, running, request,
                 localVars, result>>

----------------------------------------------------------------------------
\* force_cleanup that deletes the model and leaves the slot pointing at it
force_cleanup_NoReset ==
  /\ serving
  /\ running = NoTask
  /\ IF service_ready
       THEN /\ model_lock = NoTask
            /\ IF current_model # NoModel
                 THEN handles' = Release(handles, current_model)
                 ELSE UNCHANGED handles
       ELSE UNCHANGED handles
  /\ UNCHANGED <<service_ready, serving, current_model, current_model_name,
                 model_lock, running, pc, request, localVars, result, log>>

\* POST /cleanup: under model_lock, drop the resident model; gc.collect()
force_cleanup ==
  /\ serving
  /\ running = NoTask
  /\ IF service_ready
       THEN /\ model_lock = NoTask
            /\ IF current_model # NoModel
                 THEN /\ handles' = Release(handles, current_model)
                      /\ current_model' = NoModel
                      /\ current_model_name' = NoName
                 ELSE UNCHANGED <<handles, current_model, current_model_name>>
       ELSE UNCHANGED <<handles, current_model, current_model_name>>
  /\ UNCHANGED <<service_ready, serving, model_lock, running, pc, request,
                 localVars, result, log>>

\* cleanup that unsets the model and leaves its name in the slot
cleanup_KeepsName ==
  /\ model_lock = NoTask
  /\ IF current_model # NoModel
       THEN /\ handles' = Release(handles, current_model)
            /\ current_model' = NoModel
            /\ UNCHANGED current_model_name
       ELSE UNCHANGED <<handles, current_model, current_model_name>>

\* TTSService.cleanup(): under model_lock, drop the resident model
cleanup ==
  /\ model_lock = NoTask
  /\ IF current_model # NoModel
       THEN /\ handles' = Release(handles, current_model)
            /\ current_model' = NoModel
            /\ current_model_name' = NoName
       ELSE UNCHANGED <<handles, current_model, current_model_name>>

\* the shutdown half of lifespan: the server has stopped accepting and every
\* request has been answered; `if tts_service: tts_service.cleanup()`
Shutdown ==
  /\ serving
  /\ running = NoTask
  /\ \A t \in Tasks : pc[t] \in {"idle", "done"}
  /\ serving' = FALSE
  /\ IF service_ready
       THEN cleanup
       ELSE UNCHANGED <<handles, current_model, current_model_name>>
  /\ UNCHANGED <<service_ready, model_lock, running, pc, request, localVars,
                 result, log>>

----------------------------------------------------------------------------
Next ==
  \/ \E t \in Tasks : Start(t)
  \/ \E t \in Tasks : Admit(t)
  \/ \E t \in Tasks : Wake(t)
  \/ \E t \in Tasks : Validate(t)
  \/ \E t \in Tasks : SvcValidate(t)
  \/ \E t \in Tasks : GmLock(t)
  \/ \E t \in Tasks : GmCheck(t)
  \/ \E t \in Tasks : GmEvict(t)
  \/ \E t \in Tasks : GmLoad(t)
  \/ \E t \in Tasks : GmConstruct(t)
  \/ \E t \in Tasks : GmSetName(t)
  \/ \E t \in Tasks : GmPostLoad(t)
  \/ \E t \in Tasks : GmExcept(t)
  \/ \E t \in Tasks : MkTemp(t)
  \/ \E t \in Tasks : Synth(t)
  \/ \E t \in Tasks : Finally(t)
  \/ \E t \in Tasks : Return(t)
  \/ \E t \in Tasks : Background(t)
  \/ force_cleanup
  \/ Shutdown

Spec == Init /\ [][Next]_vars

----------------------------------------------------------------------------
\* One request with any body: the texts around max_length, every voice and
\* every speed.  The character positions where a long text may have a space:
\* its first character and the characters around the cut of the truncation.
SpacePositions == {1, max_length - 1, max_length, max_length + 1}

\* the text of n characters with spaces at the positions S, letters elsewhere
MkText(n, S) == [i \in 1..n |-> IF i \in S THEN " " ELSE "a"]

\* request.text values of max_length and max_length + 1 characters
LongTexts ==
  {MkText(n, S) : n \in {max_length, max_length + 1}, S \in SUBSET SpacePositions}

\* the one request of these runs arrives
ArriveAny(t) == Arrive(t, Texts \cup LongTexts, Voices, Speeds)

NextInput ==
  \E t \in {1} :
    \/ ArriveAny(t)
    \/ Admit(t)
    \/ Wake(t)
    \/ Validate(t)
    \/ SvcValidate(t)
    \/ GmLock(t)
    \/ GmCheck(t)
    \/ GmLoad(t)
    \/ GmConstruct(t)
    \/ GmSetName(t)
    \/ GmPostLoad(t)
    \/ GmExcept(t)
    \/ MkTemp(t)
    \/ Synth(t)
    \/ Finally(t)
    \/ Return(t)
    \/ Background(t)

SpecInput == Init /\ [][NextInput]_vars

----------------------------------------------------------------------------
\* Properties

\* C1: in every reachable state the cache holds at most Capacity resident
\* models, a construction in progress counted with the models built and not
\* released; a model that is not released is the one in current_model.
C1_AtMostOneResident ==
  /\ Cardinality(Live) + Cardinality(Constructing) <= Capacity
  /\ \A h \in Live : h = current_model

\* a construction is in progress after the eviction of an earlier model
C1_Witness ==
  \E t \in Tasks :
    /\ pc[t] = "gm_construct"
    /\ \E h \in DOMAIN handles : handles[h].released > 0

\* C2: whenever a request calls model.tts_to_file, its handle has not been
\* released (by an eviction, by POST /cleanup or by the shutdown cleanup).
C2_NoUseAfterRelease ==
  [][\A t \in Tasks :
       (pc[t] = "synth" /\ pc'[t] = "finally")
         => (model[t] \in DOMAIN handles /\ handles[model[t]].released = 0)]_vars

\* a request that was suspended in the admission check has just synthesised
\* on its handle, and an earlier handle has been released by POST /cleanup
\* (not by this request's own eviction)
C2_Witness ==
  \E t \in Tasks :
    /\ pc[t] = "finally"
    /\ memory_after_gc[t] # NoReading
    /\ ~Has(log[t], "release")
    /\ \E h \in DOMAIN handles : h # model[t] /\ handles[h].released > 0

\* C3: at most one construction is in progress at any instant, and every
\* step of get_model between the hit test and the return runs with
\* model_lock held by the caller.
C3_NoOverlappingConstruction ==
  /\ Cardinality(Constructing) <= 1
  /\ \A t \in Tasks : pc[t] \in GmPcs => model_lock = t

\* a construction is in progress while another request is in flight
C3_Witness ==
  \E t, u \in Tasks : pc[t] = "gm_construct" /\ pc[u] = "sleep"

\* C4: a get_model call that finds its key resident returns the resident
\* handle and builds nothing; a construction starts only with no model
\* resident; a handle a request holds is the resident one, built for its key.
C4_OneConstructionPerKey ==
  /\ [](\A t \in Tasks :
          /\ pc[t] \in {"gm_load", "gm_construct"} => Live = {}
          /\ model[t] # NoModel =>
               /\ model[t] = current_model
               /\ handles[model[t]].key = model_name[t])
  /\ [][\A t \in Tasks :
          (/\ pc[t] = "gm_check"
           /\ pc'[t] # "gm_check"
           /\ current_model # NoModel
           /\ current_model_name = model_name[t])
            => (/\ pc'[t] = "mktemp"
                /\ model'[t] = current_model
                /\ handles' = handles
                /\ current_model' = current_model)]_vars

\* a second request for a key got the handle the first request built: one
\* construction in all
C4_Witness ==
  \E t, u \in Tasks :
    /\ t # u
    /\ pc[t] = "mktemp"
    /\ Has(log[t], "hit")
    /\ result[u] \in {"Audio", "GenerationFailed"}
    /\ Len(handles) = 1

\* C5: when a construction is in progress no older model is resident, and if
\* this get_model call evicted a model, the release and then the
\* reclamation hint come right before the construction in its effects.
C5_ReleaseHintConstruct ==
  \A t \in Tasks :
    pc[t] = "gm_construct" =>
      /\ Live = {}
      /\ current_model = NoModel
      /\ log[t][Len(log[t])] = "construct"
      /\ Has(log[t], "release") =>
           /\ log[t][Len(log[t]) - 2] = "release"
           /\ log[t][Len(log[t]) - 1] = "gc"

\* a construction is in progress in a call that evicted a model
C5_Witness ==
  \E t \in Tasks : pc[t] = "gm_construct" /\ Has(log[t], "release")

Rejected(t) == pc[t] = "responded" /\ result[t] = "Overloaded"

\* the admission check of a request whose first reading was above the
\* threshold did one hint, one wait and one second reading, in this order
RetriedOnce(t) ==
  IF pc[t] = "sleep"
    THEN log[t] = <<"read", "gc">>
    ELSE /\ Len(log[t]) >= 4
         /\ SubSeq(log[t], 1, 4) = <<"read", "gc", "sleep", "read">>
         /\ Count(log[t], "sleep") = 1
         /\ Count(log[t], "read") = 2

\* C7 as stated: after a first reading above the threshold the check does
\* one hint, one wait and one second reading, and allows the request exactly
\* when the second reading is below the threshold.
C7_AllowedIffBelow ==
  \A t \in Tasks :
    memory_before[t] > MEMORY_THRESHOLD_MB =>
      /\ RetriedOnce(t)
      /\ pc[t] # "sleep" =>
           (~Rejected(t) <=> memory_after_gc[t] < MEMORY_THRESHOLD_MB)

\* C7 as amended: ... and allows the request exactly when the second
\* reading is not above the threshold (a reading equal to it is allowed).
C7_AllowedIffNotAbove ==
  \A t \in Tasks :
    memory_before[t] > MEMORY_THRESHOLD_MB =>
      /\ RetriedOnce(t)
      /\ pc[t] # "sleep" =>
           (~Rejected(t) <=> memory_after_gc[t] <= MEMORY_THRESHOLD_MB)

\* a request is allowed after a second reading equal to the threshold
C7_Witness ==
  \E t \in Tasks :
    /\ pc[t] = "validate"
    /\ memory_before[t] > MEMORY_THRESHOLD_MB
    /\ memory_after_gc[t] = MEMORY_THRESHOLD_MB

\* C8: a request answered 503 by the admission check has not taken
\* model_lock, built, evicted or used a model, and none of its steps
\* (arrival, the two readings, the return) changes the cache.
C8_RejectedLeavesCache ==
  /\ [](\A t \in Tasks :
          Rejected(t) =>
            /\ model_lock # t
            /\ model[t] = NoModel
            /\ model_name[t] = NoName
            /\ \A e \in {"lock", "hit", "release", "construct", "synth"} :
                 ~Has(log[t], e))
  /\ [][\A t \in Tasks :
          (/\ pc'[t] # pc[t]
           /\ Rejected(t) \/ Rejected(t)' \/ pc[t] \in {"idle", "admit"})
            => UNCHANGED cacheVars]_vars

\* a request has been rejected while a model is resident
C8_Witness ==
  \E t \in Tasks :
    /\ Rejected(t)
    /\ current_model # NoModel

\* C9 as stated: a request with empty or whitespace-only text is answered
\* 400 InvalidInput, whatever the memory readings and the cache.
C9_BlankIsInvalidInput ==
  \A t \in Tasks :
    (service_ready /\ pc[t] = "responded" /\ IsBlank(request[t].text))
      => result[t] = "InvalidInput"

\* C10: a failed load is answered 500 ModelLoadFailed after exactly one
\* construction attempt, with the cache empty (no model, no name), the lock
\* free; a request whose load was attempted and that holds no handle is
\* answered ModelLoadFailed; with the lock free, current_model and
\* current_model_name are set or unset together.
C10_FailedLoadLeavesCacheEmpty ==
  /\ \A t \in Tasks :
       (pc[t] = "responded" /\ result[t] = "ModelLoadFailed") =>
         /\ Count(log[t], "construct") = 1
         /\ current_model = NoModel
         /\ current_model_name = NoName
         /\ Live = {}
         /\ model_lock = NoTask
  /\ \A t \in Tasks :
       (pc[t] = "responded" /\ Has(log[t], "construct") /\ model[t] = NoModel)
         => result[t] = "ModelLoadFailed"
  /\ model_lock = NoTask =>
       (current_model = NoModel <=> current_model_name = NoName)

\* a request builds a model after an earlier request's load failed and
\* before any load succeeded
C10_Witness ==
  \E t, u \in Tasks :
    /\ pc[u] = "done"
    /\ result[u] = "ModelLoadFailed"
    /\ pc[t] = "gm_construct"
    /\ handles = << >>

\* a load that failed after the model was stored has been answered
C10_WitnessStored ==
  \E t \in Tasks :
    /\ pc[t] = "responded"
    /\ result[t] = "ModelLoadFailed"
    /\ \E h \in DOMAIN handles : handles[h].key = model_name[t]


\* C11: no handle is ever released twice, every handle other than the one in
\* current_model has been released exactly once, and when a request has
\* been answered with audio the cache holds its handle, built for its key,
\* and nothing else.
C11_EvictedReleasedOnce ==
  /\ \A h \in DOMAIN handles :
       /\ handles[h].released <= 1
       /\ h # current_model => handles[h].released = 1
  /\ \A t \in Tasks :
       (pc[t] = "responded" /\ result[t] = "Audio") =>
         /\ current_model = model[t]
         /\ current_model_name = model_name[t]
         /\ handles[model[t]].key = model_name[t]
         /\ Live = {model[t]}

\* a request for voice B has been answered after it evicted the handle of
\* voice A: A's handle is released once, B's is resident
C11_Witness ==
  \E t \in Tasks :
    /\ pc[t] = "responded"
    /\ result[t] = "Audio"
    /\ Has(log[t], "release")
    /\ Len(handles) = 2
    /\ handles[1].key # handles[2].key
    /\ handles[1].released = 1
    /\ current_model = 2


\* the request text as the endpoint normalizes it (trimmed)
Normalized(t) == strip(request[t].text)

\* the first n characters of s (all of s when it is shorter)
FirstChars(s, n) == SubSeq(s, 1, IF Len(s) < n THEN Len(s) ELSE n)

\* request t has called model.tts_to_file(text=text[t], ...)
Synthesised(t) == pc[t] = "finally"

\* C12 as stated: for a request text of max_length + 1 characters the text
\* given to tts_to_file is exactly the first max_length characters of the
\* normalized request text.
C12_ExactlyFirstMax ==
  \A t \in Tasks :
    (Synthesised(t) /\ Len(request[t].text) = max_length + 1)
      => text[t] = FirstChars(Normalized(t), max_length)

\* C12 as amended: ... the text given to tts_to_file is the first max_length
\* characters of the normalized request text without their trailing
\* whitespace: a prefix of them that does not end in whitespace and leaves
\* out whitespace only (so fewer than max_length characters when the cut
\* falls on or right after whitespace).
C12_FirstMaxTrimmed ==
  \A t \in Tasks :
    (Synthesised(t) /\ Len(request[t].text) = max_length + 1) =>
      LET f == FirstChars(Normalized(t), max_length)
          x == text[t]
      IN /\ Len(x) <= Len(f)
         /\ x = SubSeq(f, 1, Len(x))
         /\ \A i \in (Len(x) + 1)..Len(f) : IsSpace(f[i])
         /\ Len(x) > 0 /\ ~IsSpace(x[Len(x)])

\* a text of max_length + 1 characters, none to trim at its ends, reached
\* tts_to_file with fewer than max_length characters
C12_Witness ==
  \E t \in Tasks :
    /\ Synthesised(t)
    /\ Len(request[t].text) = max_length + 1
    /\ Len(Normalized(t)) = max_length + 1
    /\ Len(text[t]) < max_length


\* the value of [SPEED_MIN, SPEED_MAX] nearest to x
NearestInBounds(x) ==
  IF x < SPEED_MIN THEN SPEED_MIN ELSE IF x > SPEED_MAX THEN SPEED_MAX ELSE x

\* C13 as stated: once the service has prepared the call, the speed it
\* holds for a request that gave a speed is that speed clamped to the nearest
\* bound, never another value such as the default.
C13_SpeedClampedToNearest ==
  \A t \in Tasks :
    (model_name[t] # NoName /\ request[t].speed # NoSpeed)
      => speed[t] = NearestInBounds(request[t].speed)


\* the model key of the default voice
DefaultKey == available_voices["lightweight"]

\* C14: a request whose voice id is not in the voice table (an unknown id,
\* an empty or missing id) and whose text is not blank is never answered
\* InvalidInput; the service resolves it to the default voice, calls
\* get_model with the default voice's key and synthesises on a handle built
\* for that key.
C14_UnknownVoiceFallsBack ==
  \A t \in Tasks :
    (pc[t] \notin {"idle", "done", "background"}
       /\ request[t].voice \notin DOMAIN available_voices) =>
      /\ (pc[t] = "responded" /\ result[t] = "InvalidInput")
           => IsBlank(request[t].text)
      /\ pc[t] \in GmPcs \cup {"gm_lock", "mktemp", "synth", "finally"} =>
           /\ voice[t] = "lightweight"
           /\ model_name[t] = DefaultKey
      /\ model[t] # NoModel => handles[model[t]].key = DefaultKey

\* a request naming an unknown voice has been answered with audio from a
\* model of the default voice
C14_Witness ==
  \E t \in Tasks :
    /\ pc[t] = "responded"
    /\ result[t] = "Audio"
    /\ request[t].voice = "robot"
    /\ handles[model[t]].key = DefaultKey


\* the service's generate_speech has returned or raised for request t
ServiceExited(t) ==
  /\ pc[t] \in {"responded", "background", "done"}
  /\ result[t] \in {"Audio", "GenerationFailed"}

\* C15: once generate_speech has returned or raised, no temporary file
\* created by that request still exists.
C15_TmpFileReleased ==
  \A t \in Tasks : ServiceExited(t) => ~tmp_file[t]


\* C16: whatever the outcome of a request, a reclamation hint is scheduled
\* for after its result: a request is never finished without the hint of
\* its background task having run after the result was returned.
C16_HintAfterEveryOutcome ==
  \A t \in Tasks : pc[t] = "done" => log[t] = <<"gc">>


\* request t is at the construction of a model or at the synthesis call: the
\* call has been entered on the loop thread and has not returned yet
InBlockingCall(t) == pc[t] \in {"gm_construct", "synth"}

\* C17: while one request is inside model construction or the synthesis
\* call, another request can still take its steps: a new request can be
\* taken in, and a request whose admission wait is over can go on.
C17_IntakeNotStalled ==
  \A t, u \in Tasks :
    (t # u /\ InBlockingCall(t)) =>
      /\ (pc[u] = "idle" /\ serving) => ENABLED Start(u)
      /\ pc[u] = "sleep" => ENABLED Wake(u)


\* no entry is resident: both fields of the slot are unset and no handle is
\* live
CacheEmpty ==
  /\ current_model = NoModel
  /\ current_model_name = NoName
  /\ Live = {}

\* C18: a step of POST /cleanup (with the service built) or of the shutdown
\* cleanup, taken in any cache state and with other requests in flight,
\* leaves no entry resident and has released the handle that was resident
\* (once); after shutdown the cache stays empty; and a request that finds
\* the cache empty goes on to construct a handle that did not exist before.
C18_CleanupEmptiesCache ==
  /\ [](~serving => CacheEmpty)
  /\ [][((force_cleanup /\ service_ready) \/ Shutdown) =>
          /\ CacheEmpty'
          /\ current_model # NoModel =>
               /\ handles[current_model].released = 0
               /\ handles'[current_model].released = 1]_vars
  /\ [][\A t \in Tasks :
          /\ (pc[t] = "gm_check" /\ current_model = NoModel /\ pc'[t] # pc[t])
               => pc'[t] = "gm_load"
          /\ (pc[t] = "gm_construct" /\ pc'[t] = "gm_setname") =>
               /\ Len(handles') = Len(handles) + 1
               /\ current_model' = Len(handles')
               /\ handles'[current_model'].released = 0]_vars

\* after one request got audio the cache was cleaned up, and a request for
\* the same key has constructed a second handle (nothing was evicted by it)
C18_Witness ==
  \E t \in Tasks :
    /\ pc[t] = "gm_setname"
    /\ ~Has(log[t], "release")
    /\ Len(handles) = 2
    /\ handles[1].released = 1
    /\ handles[1].key = handles[2].key
    /\ handles[2].released = 0
    /\ \E u \in Tasks : result[u] = "Audio"


\* the get_model call of request t evicted a resident model before it
\* entered the construction
EvictedThenConstructed(t) ==
  \E i \in 1..(Len(log[t]) - 2) :
    /\ log[t][i] = "release"
    /\ log[t][i + 2] = "construct"

\* the get_model call of request t has raised its HTTPException
LoadFailed(t) == pc[t] = "responded" /\ result[t] = "ModelLoadFailed"

\* C20: when get_model for key B evicted the handle of another key A and
\* the load of B then failed, the cache ends empty; A's handle exists, is
\* released (once) and is not resident again, so a request for A does not
\* hit.
C20_FailedReplaceLeavesEmpty ==
  \A t \in Tasks :
    (LoadFailed(t) /\ EvictedThenConstructed(t)) =>
      /\ CacheEmpty
      /\ \E a \in DOMAIN handles :
           /\ handles[a].key # model_name[t]
           /\ handles[a].released = 1
      /\ \A h \in DOMAIN handles : handles[h].released = 1
      /\ \A u \in Tasks : ~IsHit(u)

\* the construction of B itself failed after A was evicted: A is the only
\* handle there is, and it is released
C20_Witness ==
  \E t \in Tasks :
    /\ LoadFailed(t)
    /\ EvictedThenConstructed(t)
    /\ Len(handles) = 1
    /\ handles[1].key # model_name[t]
    /\ handles[1].released = 1


----------------------------------------------------------------------------
\* Fair scheduling

\* the next step of request t once it has arrived: a step of its handler on
\* the loop thread, or its background task on the worker thread
Step(t) ==
  \/ Admit(t) \/ Wake(t) \/ Validate(t) \/ SvcValidate(t)
  \/ GmLock(t) \/ GmCheck(t) \/ GmEvict(t) \/ GmLoad(t) \/ GmConstruct(t)
  \/ GmSetName(t) \/ GmPostLoad(t) \/ GmExcept(t)
  \/ MkTemp(t) \/ Synth(t) \/ Finally(t) \/ Return(t) \/ Background(t)

\* the loop runs a ready task, every call made on it returns or raises, and
\* the worker thread runs the background task it was given
FairSpec == Spec /\ \A t \in Tasks : WF_vars(Step(t))

\* the results a handler can answer with: audio or a structured error
Results == {"Audio", "InvalidInput", "ServiceNotReady", "Overloaded",
            "ModelLoadFailed", "GenerationFailed"}

\* the handler of request t has returned its answer
Answered(t) == pc[t] \in {"background", "done"} /\ result[t] \in Results

\* C19: under fair scheduling every request that has arrived is eventually
\* answered with audio or a structured error and finishes; model_lock is
\* held only by a request inside get_model, it is free whenever the loop is
\* idle (so after get_model, cleanup and POST /cleanup, on every exit path),
\* and a request waiting to acquire it always gets it.
C19_TerminatesAndLockFree ==
  /\ \A t \in Tasks : (pc[t] # "idle") ~> Answered(t)
  /\ \A t \in Tasks : Answered(t) ~> (pc[t] = "done")
  /\ \A t \in Tasks : (pc[t] = "gm_lock") ~> (pc[t] = "gm_check")
  /\ [](\A t \in Tasks : model_lock = t => pc[t] \in GmPcs)
  /\ [](running = NoTask => model_lock = NoTask)
  /\ [](\A t \in Tasks : pc[t] = "gm_lock" => model_lock = NoTask)

\* one request's load has failed and it has finished; a later request has
\* acquired model_lock
C19_Witness ==
  \E t, u \in Tasks :
    /\ pc[u] = "done"
    /\ result[u] = "ModelLoadFailed"
    /\ pc[t] = "gm_check"
    /\ model_lock = t

====
